---- MODULE Spec2Model ----
(***************************************************************************)
(* Pomocus: the Pomodoro timer engine (PomodoroLogic, src/src/pomocus.py)  *)
(* as a state machine.  One variable per field of PomodoroLogic, one       *)
(* action per public method.  The three callbacks (on_tick, on_complete,   *)
(* on_mode_change) are registered by PomocusUI.__init__ (src/src/ui.py     *)
(* 283-285); the calls a method makes to them are recorded, in order, in   *)
(* `out`.                                                                  *)
(***************************************************************************)
EXTENDS Integers, Sequences, FiniteSets, TLC

\* ---- bounds of the model ------------------------------------------------
MaxMinutes == 2
MaxInterval == 2
\* pomodoros_completed is unbounded in the program; the model stops
\* completing work phases after two full rounds of the largest interval.
MaxPomodoros == 2 * MaxInterval

Minutes == 1..MaxMinutes
\* The durations <<work, short break, long break>> the model configures:
\* one minute each, or one of the three MaxMinutes long.
Durations ==
    {d \in Minutes \X Minutes \X Minutes :
        /\ \A k \in 1..3 : d[k] \in {1, MaxMinutes}
        /\ Cardinality({k \in 1..3 : d[k] > 1}) <= 1}
Intervals == 1..MaxInterval

VARIABLES
    work_duration, short_break_duration, long_break_duration,
    long_break_interval, auto_start,
    time_left, total_time, is_running, timer_mode, pomodoros_completed,
    out,        \* callbacks invoked by the last operation, in call order
    ret,        \* value returned by the last operation
    last_op,    \* the last operation performed
    \* history of the current flow
    work_completions, last_break,
    \* history of an uninterrupted start(); tick(); tick(); ... run
    run_n, run_ticks, run_others, run_mode, run_pom, run_total,
    \* the settings store and the settings dialog
    settings,       \* SettingsManager.settings, the configuration in memory
    settings_file,  \* the content of settings.json
    disk,           \* what writing settings.json meets: "ok", "no_open", "no_write"
    raised,         \* the exception the last SettingsManager call let through
    dialog,         \* the settings dialog: "closed" or "open"
    start_button    \* the glyph on the start/pause button: "play" or "pause"

fields == <<work_duration, short_break_duration, long_break_duration,
            long_break_interval, auto_start,
            time_left, total_time, is_running, timer_mode, pomodoros_completed>>

vars == <<work_duration, short_break_duration, long_break_duration,
          long_break_interval, auto_start,
          time_left, total_time, is_running, timer_mode, pomodoros_completed,
          out, ret, last_op, work_completions, last_break,
          run_n, run_ticks, run_others, run_mode, run_pom, run_total,
          settings, settings_file, disk, raised, dialog, start_button>>

\* The variables of the settings store and of the window.
store == <<settings, settings_file, disk, raised, dialog, start_button>>

\* The object at the entry of a method: its fields, no callback invoked yet,
\* nothing returned yet.  seen lists what the handlers of on_mode_change and
\* on_complete find the engine in, one entry per call, in call order.
self ==
    [work_duration |-> work_duration,
     short_break_duration |-> short_break_duration,
     long_break_duration |-> long_break_duration,
     long_break_interval |-> long_break_interval,
     auto_start |-> auto_start,
     time_left |-> time_left,
     total_time |-> total_time,
     is_running |-> is_running,
     timer_mode |-> timer_mode,
     pomodoros_completed |-> pomodoros_completed,
     out |-> <<>>,
     seen |-> <<>>,
     ret |-> "None"]

\* ---- PomodoroLogic ------------------------------------------------------

\* What a callback's handler finds the engine s in.
Observed(s) ==
    [timer_mode |-> s.timer_mode,
     time_left |-> s.time_left,
     total_time |-> s.total_time,
     is_running |-> s.is_running,
     pomodoros_completed |-> s.pomodoros_completed]

\* Mutant of __init__: the first phase is timed with the short break's duration.
init_short_break_time(work_min, short_break_min, long_break_min, interval, auto) ==
    [work_duration |-> work_min,
     short_break_duration |-> short_break_min,
     long_break_duration |-> long_break_min,
     long_break_interval |-> interval,
     auto_start |-> auto,
     time_left |-> short_break_min * 60,
     total_time |-> short_break_min * 60,
     is_running |-> FALSE,
     timer_mode |-> "work",
     pomodoros_completed |-> 0,
     out |-> <<>>,
     seen |-> <<>>,
     ret |-> "None"]

__init__(work_min, short_break_min, long_break_min, interval, auto) ==
    [work_duration |-> work_min,
     short_break_duration |-> short_break_min,
     long_break_duration |-> long_break_min,
     long_break_interval |-> interval,
     auto_start |-> auto,
     time_left |-> work_min * 60,
     total_time |-> work_min * 60,
     is_running |-> FALSE,
     timer_mode |-> "work",
     pomodoros_completed |-> 0,
     out |-> <<>>,
     seen |-> <<>>,
     ret |-> "None"]

\* Mutant of start: starting also rewinds the phase to its full time.
start_rewinds(s) == [s EXCEPT !.is_running = TRUE, !.time_left = s.total_time]

start(s) == [s EXCEPT !.is_running = TRUE]

pause(s) == [s EXCEPT !.is_running = FALSE]

\* Mutant of reset: the phase is rewound but the timer keeps running.
reset_keeps_running(s) ==
    IF s.timer_mode = "work"
    THEN [s EXCEPT !.time_left = s.work_duration * 60,
                   !.total_time = s.work_duration * 60]
    ELSE IF s.timer_mode = "short_break"
    THEN [s EXCEPT !.time_left = s.short_break_duration * 60,
                   !.total_time = s.short_break_duration * 60]
    ELSE [s EXCEPT !.time_left = s.long_break_duration * 60,
                   !.total_time = s.long_break_duration * 60]

reset(s) ==
    LET s1 == [s EXCEPT !.is_running = FALSE]
    IN  IF s1.timer_mode = "work"
        THEN [s1 EXCEPT !.time_left = s1.work_duration * 60,
                        !.total_time = s1.work_duration * 60]
        ELSE IF s1.timer_mode = "short_break"
        THEN [s1 EXCEPT !.time_left = s1.short_break_duration * 60,
                        !.total_time = s1.short_break_duration * 60]
        ELSE [s1 EXCEPT !.time_left = s1.long_break_duration * 60,
                        !.total_time = s1.long_break_duration * 60]

\* Mutant of switch_mode: total_time is set for the new mode, time_left is not.
switch_mode_keeps_time_left(s, mode) ==
    LET s1 == [s EXCEPT !.timer_mode = mode]
        s2 == IF mode = "work"
              THEN [s1 EXCEPT !.total_time = s1.work_duration * 60]
              ELSE IF mode = "short_break"
              THEN [s1 EXCEPT !.total_time = s1.short_break_duration * 60]
              ELSE [s1 EXCEPT !.total_time = s1.long_break_duration * 60]
    IN  [s2 EXCEPT !.out = Append(@, [cb |-> "on_mode_change", arg |-> mode]),
                   !.seen = Append(@, Observed(s2))]

switch_mode(s, mode) ==
    LET s1 == [s EXCEPT !.timer_mode = mode]
        s2 == IF mode = "work"
              THEN [s1 EXCEPT !.time_left = s1.work_duration * 60,
                              !.total_time = s1.work_duration * 60]
              ELSE IF mode = "short_break"
              THEN [s1 EXCEPT !.time_left = s1.short_break_duration * 60,
                              !.total_time = s1.short_break_duration * 60]
              ELSE [s1 EXCEPT !.time_left = s1.long_break_duration * 60,
                              !.total_time = s1.long_break_duration * 60]
    IN  [s2 EXCEPT !.out = Append(@, [cb |-> "on_mode_change", arg |-> mode]),
                   !.seen = Append(@, Observed(s2))]

\* Mutant of complete: the next phase is never started automatically.
complete_without_auto_start(s) ==
    LET s1 == [s EXCEPT !.is_running = FALSE]
        completed_mode == s1.timer_mode
        s2 == IF s1.timer_mode = "work"
              THEN LET s1a == [s1 EXCEPT !.pomodoros_completed = @ + 1]
                       next_mode ==
                           IF s1a.pomodoros_completed % s1a.long_break_interval = 0
                           THEN "long_break" ELSE "short_break"
                   IN  switch_mode(s1a, next_mode)
              ELSE switch_mode(s1, "work")
    IN  [s2 EXCEPT !.out = Append(@, [cb |-> "on_complete", arg |-> completed_mode]),
                       !.seen = Append(@, Observed(s2))]

\* Mutant of complete: the modulo test reads the counter before the increment.
complete_mod_before_increment(s) ==
    LET s1 == [s EXCEPT !.is_running = FALSE]
        completed_mode == s1.timer_mode
        s2 == IF s1.timer_mode = "work"
              THEN LET next_mode ==
                           IF s1.pomodoros_completed % s1.long_break_interval = 0
                           THEN "long_break" ELSE "short_break"
                       s1a == [s1 EXCEPT !.pomodoros_completed = @ + 1]
                   IN  switch_mode(s1a, next_mode)
              ELSE switch_mode(s1, "work")
        s3 == [s2 EXCEPT !.out = Append(@, [cb |-> "on_complete", arg |-> completed_mode]),
                       !.seen = Append(@, Observed(s2))]
    IN  IF s3.auto_start THEN start(s3) ELSE s3

\* Mutant of complete: every completed phase is counted, breaks included.
complete_counts_breaks(s) ==
    LET s1 == [s EXCEPT !.is_running = FALSE, !.pomodoros_completed = @ + 1]
        completed_mode == s1.timer_mode
        s2 == IF s1.timer_mode = "work"
              THEN LET next_mode ==
                           IF s1.pomodoros_completed % s1.long_break_interval = 0
                           THEN "long_break" ELSE "short_break"
                   IN  switch_mode(s1, next_mode)
              ELSE switch_mode(s1, "work")
        s3 == [s2 EXCEPT !.out = Append(@, [cb |-> "on_complete", arg |-> completed_mode]),
                       !.seen = Append(@, Observed(s2))]
    IN  IF s3.auto_start THEN start(s3) ELSE s3

\* Mutant of complete: on_complete is handed the new mode, not the completed one.
complete_reports_new_mode(s) ==
    LET s1 == [s EXCEPT !.is_running = FALSE]
        s2 == IF s1.timer_mode = "work"
              THEN LET s1a == [s1 EXCEPT !.pomodoros_completed = @ + 1]
                       next_mode ==
                           IF s1a.pomodoros_completed % s1a.long_break_interval = 0
                           THEN "long_break" ELSE "short_break"
                   IN  switch_mode(s1a, next_mode)
              ELSE switch_mode(s1, "work")
        s3 == [s2 EXCEPT !.out = Append(@, [cb |-> "on_complete", arg |-> s2.timer_mode]),
                       !.seen = Append(@, Observed(s2))]
    IN  IF s3.auto_start THEN start(s3) ELSE s3

\* Mutant of complete: a completed short break is followed by the long break.
complete_break_after_break(s) ==
    LET s1 == [s EXCEPT !.is_running = FALSE]
        completed_mode == s1.timer_mode
        s2 == IF s1.timer_mode = "work"
              THEN LET s1a == [s1 EXCEPT !.pomodoros_completed = @ + 1]
                       next_mode ==
                           IF s1a.pomodoros_completed % s1a.long_break_interval = 0
                           THEN "long_break" ELSE "short_break"
                   IN  switch_mode(s1a, next_mode)
              ELSE IF s1.timer_mode = "short_break"
              THEN switch_mode(s1, "long_break")
              ELSE switch_mode(s1, "work")
        s3 == [s2 EXCEPT !.out = Append(@, [cb |-> "on_complete", arg |-> completed_mode]),
                       !.seen = Append(@, Observed(s2))]
    IN  IF s3.auto_start THEN start(s3) ELSE s3

\* Mutant of complete: auto_start restarts the timer before on_complete is
\* called.
complete_starts_before_callback(s) ==
    LET s1 == [s EXCEPT !.is_running = FALSE]
        completed_mode == s1.timer_mode
        s2 == IF s1.timer_mode = "work"
              THEN LET s1a == [s1 EXCEPT !.pomodoros_completed = @ + 1]
                       next_mode ==
                           IF s1a.pomodoros_completed % s1a.long_break_interval = 0
                           THEN "long_break" ELSE "short_break"
                   IN  switch_mode(s1a, next_mode)
              ELSE switch_mode(s1, "work")
        s3 == IF s2.auto_start THEN start(s2) ELSE s2
    IN  [s3 EXCEPT !.out = Append(@, [cb |-> "on_complete", arg |-> completed_mode]),
                   !.seen = Append(@, Observed(s3))]

complete(s) ==
    LET s1 == [s EXCEPT !.is_running = FALSE]
        completed_mode == s1.timer_mode
        s2 == IF s1.timer_mode = "work"
              THEN LET s1a == [s1 EXCEPT !.pomodoros_completed = @ + 1]
                       next_mode ==
                           IF s1a.pomodoros_completed % s1a.long_break_interval = 0
                           THEN "long_break" ELSE "short_break"
                   IN  switch_mode(s1a, next_mode)
              ELSE switch_mode(s1, "work")
        s3 == [s2 EXCEPT !.out = Append(@, [cb |-> "on_complete", arg |-> completed_mode]),
                       !.seen = Append(@, Observed(s2))]
    IN  IF s3.auto_start THEN start(s3) ELSE s3

\* Mutant of reset_flow: the round counter is kept.
reset_flow_keeps_rounds(s) ==
    switch_mode([s EXCEPT !.is_running = FALSE], "work")

reset_flow(s) ==
    switch_mode([s EXCEPT !.pomodoros_completed = 0, !.is_running = FALSE], "work")

\* Mutant of skip: the skipped phase's successor is never started automatically.
skip_stays_paused(s) ==
    pause(complete([s EXCEPT !.is_running = FALSE, !.time_left = 0]))

skip(s) ==
    complete([s EXCEPT !.is_running = FALSE, !.time_left = 0])

\* Mutant of tick: the decrement is not guarded by time_left > 0.
tick_below_zero(s) ==
    IF s.is_running
    THEN [s EXCEPT !.time_left = @ - 1,
                   !.out = Append(@, [cb |-> "on_tick", arg |-> "None"]),
                   !.ret = "True"]
    ELSE [s EXCEPT !.ret = "False"]

\* Mutant of tick: the branch for a running timer at zero is missing.
tick_never_completes(s) ==
    IF s.is_running /\ s.time_left > 0
    THEN [s EXCEPT !.time_left = @ - 1,
                   !.out = Append(@, [cb |-> "on_tick", arg |-> "None"]),
                   !.ret = "True"]
    ELSE [s EXCEPT !.ret = "False"]

\* Mutant of tick: the countdown does not test is_running.
tick_ignores_pause(s) ==
    IF s.time_left > 0
    THEN [s EXCEPT !.time_left = @ - 1,
                   !.out = Append(@, [cb |-> "on_tick", arg |-> "None"]),
                   !.ret = "True"]
    ELSE IF s.is_running /\ s.time_left = 0
    THEN [complete(s) EXCEPT !.ret = "False"]
    ELSE [s EXCEPT !.ret = "False"]

\* Mutant of tick: on_tick is not called after the decrement.
tick_without_callback(s) ==
    IF s.is_running /\ s.time_left > 0
    THEN [s EXCEPT !.time_left = @ - 1,
                   !.ret = "True"]
    ELSE IF s.is_running /\ s.time_left = 0
    THEN [complete(s) EXCEPT !.ret = "False"]
    ELSE [s EXCEPT !.ret = "False"]

\* Mutant of tick: the tick that reaches zero completes the phase at once.
tick_completes_on_zero(s) ==
    IF s.is_running /\ s.time_left > 1
    THEN [s EXCEPT !.time_left = @ - 1,
                   !.out = Append(@, [cb |-> "on_tick", arg |-> "None"]),
                   !.ret = "True"]
    ELSE IF s.is_running /\ s.time_left = 1
    THEN [complete([s EXCEPT !.time_left = 0,
                             !.out = Append(@, [cb |-> "on_tick", arg |-> "None"])])
            EXCEPT !.ret = "True"]
    ELSE IF s.is_running /\ s.time_left = 0
    THEN [complete(s) EXCEPT !.ret = "False"]
    ELSE [s EXCEPT !.ret = "False"]

\* Mutant of tick: the completing tick returns True as well.
tick_returns_true_on_completion(s) ==
    IF s.is_running /\ s.time_left > 0
    THEN [s EXCEPT !.time_left = @ - 1,
                   !.out = Append(@, [cb |-> "on_tick", arg |-> "None"]),
                   !.ret = "True"]
    ELSE IF s.is_running /\ s.time_left = 0
    THEN [complete(s) EXCEPT !.ret = "True"]
    ELSE [s EXCEPT !.ret = "False"]

\* Mutant of tick: the tick that finds a running timer at zero stops it.
tick_pauses_at_zero(s) ==
    IF s.is_running /\ s.time_left > 0
    THEN [s EXCEPT !.time_left = @ - 1,
                   !.out = Append(@, [cb |-> "on_tick", arg |-> "None"]),
                   !.ret = "True"]
    ELSE [s EXCEPT !.is_running = FALSE, !.ret = "False"]

tick(s) ==
    IF s.is_running /\ s.time_left > 0
    THEN [s EXCEPT !.time_left = @ - 1,
                   !.out = Append(@, [cb |-> "on_tick", arg |-> "None"]),
                   !.ret = "True"]
    ELSE IF s.is_running /\ s.time_left = 0
    THEN [complete(s) EXCEPT !.ret = "False"]
    ELSE [s EXCEPT !.ret = "False"]

\* Mutant of update_durations: the new durations are stored, the phase in
\* progress is left as it is.
update_durations_keeps_phase(s, work_min, short_min, long_min, interval, auto) ==
    [s EXCEPT !.work_duration = work_min,
              !.short_break_duration = short_min,
              !.long_break_duration = long_min,
              !.long_break_interval = interval,
              !.auto_start = auto,
              !.pomodoros_completed = 0,
              !.is_running = FALSE]

\* The ratio get_progress returns, as numerator and denominator (0.0 is 0/1).
get_progress(s) ==
    IF s.total_time > 0
    THEN [num |-> s.total_time - s.time_left, den |-> s.total_time]
    ELSE [num |-> 0, den |-> 1]

\* Mutant of update_durations: the round counter is kept.
update_durations_keeps_rounds(s, work_min, short_min, long_min, interval, auto) ==
    LET s1 == [s EXCEPT !.work_duration = work_min,
                        !.short_break_duration = short_min,
                        !.long_break_duration = long_min,
                        !.long_break_interval = interval,
                        !.auto_start = auto,
                        !.is_running = FALSE]
    IN  switch_mode(s1, "work")

\* Mutant of update_durations: the fields are assigned and the phase in
\* progress is rewound, the flow is not reset.
update_durations_without_reset_flow(s, work_min, short_min, long_min, interval, auto) ==
    reset([s EXCEPT !.work_duration = work_min,
                    !.short_break_duration = short_min,
                    !.long_break_duration = long_min,
                    !.long_break_interval = interval,
                    !.auto_start = auto])

update_durations(s, work_min, short_min, long_min, interval, auto) ==
    LET s1 == [s EXCEPT !.work_duration = work_min,
                        !.short_break_duration = short_min,
                        !.long_break_duration = long_min,
                        !.long_break_interval = interval,
                        !.auto_start = auto,
                        !.pomodoros_completed = 0,
                        !.is_running = FALSE]
    IN  switch_mode(s1, "work")

\* ---- SettingsManager (src/src/settings.py) ------------------------------

DEFAULT_WORK == 25
DEFAULT_SHORT_BREAK == 5
DEFAULT_LONG_BREAK == 15
DEFAULT_LONG_BREAK_INTERVAL == 4
DEFAULT_SOUND_ENABLED == TRUE
DEFAULT_AUTO_START == FALSE
DEFAULT_THEME_MODE == "dark"

THEMES == {"dark", "light"}

\* The keys of the settings dict.
NumericKeys ==
    {"work_duration", "short_break_duration", "long_break_duration",
     "long_break_interval"}
Keys == NumericKeys \cup {"auto_start", "theme_mode", "enable_sound"}

_get_defaults ==
    [work_duration |-> DEFAULT_WORK,
     short_break_duration |-> DEFAULT_SHORT_BREAK,
     long_break_duration |-> DEFAULT_LONG_BREAK,
     long_break_interval |-> DEFAULT_LONG_BREAK_INTERVAL,
     auto_start |-> DEFAULT_AUTO_START,
     theme_mode |-> DEFAULT_THEME_MODE,
     enable_sound |-> DEFAULT_SOUND_ENABLED]

\* The values json.load produces.  t is the Python type; n the number of an
\* int or bool, the integral part of a float, the length of a list or dict;
\* s the text of a str, "frac" for a float that is not integral.
JInt(n) == [t |-> "int", n |-> n, s |-> ""]
JFloat(n, frac) == [t |-> "float", n |-> n, s |-> IF frac THEN "frac" ELSE ""]
JInf == [t |-> "inf", n |-> 0, s |-> ""]
JNaN == [t |-> "nan", n |-> 0, s |-> ""]
JStr(s) == [t |-> "str", n |-> 0, s |-> s]
JBool(b) == [t |-> "bool", n |-> IF b THEN 1 ELSE 0, s |-> ""]
JNull == [t |-> "NoneType", n |-> 0, s |-> ""]
JList(n) == [t |-> "list", n |-> n, s |-> ""]
JDict(n) == [t |-> "dict", n |-> n, s |-> ""]

\* The strings of decimal digits among the model's strings, with their value.
Numerals == {<<"7", 7>>, <<"0", 0>>, <<"120", 120>>}

\* int(value): the exception it raises ("None" for none) and its result.
int(value) ==
    IF value.t \in {"int", "bool", "float"} THEN [exc |-> "None", n |-> value.n]
    ELSE IF value.t = "inf" THEN [exc |-> "OverflowError", n |-> 0]
    ELSE IF value.t = "nan" THEN [exc |-> "ValueError", n |-> 0]
    ELSE IF value.t = "str"
    THEN IF \E p \in Numerals : p[1] = value.s
         THEN [exc |-> "None", n |-> (CHOOSE p \in Numerals : p[1] = value.s)[2]]
         ELSE [exc |-> "ValueError", n |-> 0]
    ELSE [exc |-> "TypeError", n |-> 0]

\* bool(value): Python's truth value.
bool(value) ==
    IF value.t \in {"int", "bool", "list", "dict"} THEN value.n # 0
    ELSE IF value.t = "float" THEN value.n # 0 \/ value.s = "frac"
    ELSE IF value.t \in {"inf", "nan"} THEN TRUE
    ELSE IF value.t = "str" THEN value.s # ""
    ELSE FALSE

min(a, b) == IF a <= b THEN a ELSE b
max(a, b) == IF a >= b THEN a ELSE b

\* Mutant of _clamp_int: the value is capped from above only.
_clamp_int_without_lower_bound(value, min_value, max_value, fallback) ==
    LET ivalue == int(value)
    IN  IF ivalue.exc \in {"TypeError", "ValueError"}
        THEN [exc |-> "None", n |-> fallback]
        ELSE IF ivalue.exc # "None"
        THEN [exc |-> ivalue.exc, n |-> 0]
        ELSE [exc |-> "None", n |-> min(max_value, ivalue.n)]

\* Mutant of _clamp_int: the upper bound itself is not let through.
_clamp_int_below_upper_bound(value, min_value, max_value, fallback) ==
    LET ivalue == int(value)
    IN  IF ivalue.exc \in {"TypeError", "ValueError"}
        THEN [exc |-> "None", n |-> fallback]
        ELSE IF ivalue.exc # "None"
        THEN [exc |-> ivalue.exc, n |-> 0]
        ELSE [exc |-> "None", n |-> max(min_value, min(max_value - 1, ivalue.n))]

\* _clamp_int: TypeError and ValueError give the fallback, any other
\* exception of int() leaves the function.
_clamp_int(value, min_value, max_value, fallback) ==
    LET ivalue == int(value)
    IN  IF ivalue.exc \in {"TypeError", "ValueError"}
        THEN [exc |-> "None", n |-> fallback]
        ELSE IF ivalue.exc # "None"
        THEN [exc |-> ivalue.exc, n |-> 0]
        ELSE [exc |-> "None", n |-> max(min_value, min(max_value, ivalue.n))]

\* value in self.THEMES: hashing a list or a dict raises TypeError.
in_THEMES(value) ==
    IF value.t \in {"list", "dict"} THEN [exc |-> "TypeError", b |-> FALSE]
    ELSE [exc |-> "None", b |-> value.t = "str" /\ value.s \in THEMES]

\* The first exception among the given ones, in order ("None" if none).
FirstOf(excs) ==
    IF \E i \in 1..Len(excs) : excs[i] # "None"
    THEN excs[CHOOSE i \in 1..Len(excs) :
                  excs[i] # "None" /\ \A j \in 1..(i - 1) : excs[j] = "None"]
    ELSE "None"

\* _sanitize_settings on the dict d (key -> value of json.load; every key
\* is present, as _load_settings merges the defaults in first).
_sanitize_settings(d) ==
    LET defaults == _get_defaults
        w == _clamp_int(d["work_duration"], 1, 90, defaults.work_duration)
        sb == _clamp_int(d["short_break_duration"], 1, 30, defaults.short_break_duration)
        lb == _clamp_int(d["long_break_duration"], 1, 60, defaults.long_break_duration)
        li == _clamp_int(d["long_break_interval"], 1, 10, defaults.long_break_interval)
        th == in_THEMES(d["theme_mode"])
        exc == FirstOf(<<w.exc, sb.exc, lb.exc, li.exc, th.exc>>)
    IN  IF exc # "None"
        THEN [raised |-> exc, settings |-> defaults]
        ELSE [raised |-> "None",
              settings |->
                [work_duration |-> w.n,
                 short_break_duration |-> sb.n,
                 long_break_duration |-> lb.n,
                 long_break_interval |-> li.n,
                 auto_start |-> bool(d["auto_start"]),
                 theme_mode |-> IF th.b THEN d["theme_mode"].s ELSE defaults.theme_mode,
                 enable_sound |-> bool(d["enable_sound"])]]

\* The defaults as json.load would produce them.
DefaultValue(k) ==
    IF k \in NumericKeys THEN JInt(_get_defaults[k])
    ELSE IF k = "theme_mode" THEN JStr(_get_defaults[k])
    ELSE JBool(_get_defaults[k])

\* defaults.update(loaded) for a dict (or list of pairs) loaded: key -> value.
Merged(loaded) ==
    [k \in Keys |-> IF k \in DOMAIN loaded THEN loaded[k] ELSE DefaultValue(k)]

\* A settings file: kind is "missing", "unreadable" (open or read raises
\* IOError), "undecodable" (bytes that are no text), "malformed" (no JSON) or
\* "json"; top is the Python type json.load returns ("pairs" for a list of
\* [key, value] pairs, "list" for another non-empty list, "empty_list",
\* "empty_str"); obj holds key -> value for a dict or pairs.
File(kind, top, obj) == [kind |-> kind, top |-> top, obj |-> obj]
NoObj == [k \in {} |-> JNull]

\* _load_settings on the file f: what it raises and what it returns.
_load_settings(f) ==
    IF f.kind \in {"missing", "unreadable", "malformed"}
    THEN [raised |-> "None", settings |-> _get_defaults]
    ELSE IF f.kind = "undecodable"
    THEN [raised |-> "UnicodeDecodeError", settings |-> _get_defaults]
    ELSE IF f.top \in {"dict", "pairs"} THEN _sanitize_settings(Merged(f.obj))
    ELSE IF f.top \in {"empty_list", "empty_str"} THEN _sanitize_settings(Merged(NoObj))
    ELSE IF f.top = "str" THEN [raised |-> "ValueError", settings |-> _get_defaults]
    ELSE [raised |-> "TypeError", settings |-> _get_defaults]

\* json.dump of the settings dict st.
Dump(st) ==
    File("json", "dict",
         [k \in Keys |->
            IF k \in NumericKeys THEN JInt(st[k])
            ELSE IF k = "theme_mode" THEN JStr(st[k])
            ELSE JBool(st[k])])

\* open(settings_file, 'w') followed by json.dump of st on a disk in state d:
\* "ok"; "no_open" (open raises IOError, the file is untouched); "no_write"
\* (the file is truncated by open, the write raises IOError).
Written(f, st, d) ==
    IF d = "ok" THEN Dump(st)
    ELSE IF d = "no_open" THEN f
    ELSE File("malformed", "", NoObj)

\* save_settings forgetting to store auto_start.
save_settings_forgets_auto_start(st, work_min, short_min, long_min, interval, auto, enable_sound) ==
    [st EXCEPT !.work_duration = work_min,
               !.short_break_duration = short_min,
               !.long_break_duration = long_min,
               !.long_break_interval = interval,
               !.enable_sound = enable_sound]

\* save_settings: the settings dict it leaves (IOError is caught and printed).
save_settings(st, work_min, short_min, long_min, interval, auto, enable_sound) ==
    [st EXCEPT !.work_duration = work_min,
               !.short_break_duration = short_min,
               !.long_break_duration = long_min,
               !.long_break_interval = interval,
               !.auto_start = auto,
               !.enable_sound = enable_sound]

get_theme_mode(st) == st.theme_mode

\* Mutant of toggle_theme: the new mode is stored in a fresh dict of defaults.
toggle_theme_from_defaults(st) ==
    LET current == get_theme_mode(st)
        new_mode == IF current = "dark" THEN "light" ELSE "dark"
    IN  [_get_defaults EXCEPT !.theme_mode = new_mode]

\* toggle_theme: the settings dict it leaves.
toggle_theme(st) ==
    LET current == get_theme_mode(st)
        new_mode == IF current = "dark" THEN "light" ELSE "dark"
    IN  [st EXCEPT !.theme_mode = new_mode]

\* ---- the state machine --------------------------------------------------

\* The number of calls of callback cb recorded in the sequence o.
Calls(o, cb) == Cardinality({i \in 1..Len(o) : o[i].cb = cb})

\* The fields become those of the object s (the object a method leaves).
Becomes(s) ==
    /\ work_duration' = s.work_duration
    /\ short_break_duration' = s.short_break_duration
    /\ long_break_duration' = s.long_break_duration
    /\ long_break_interval' = s.long_break_interval
    /\ auto_start' = s.auto_start
    /\ time_left' = s.time_left
    /\ total_time' = s.total_time
    /\ is_running' = s.is_running
    /\ timer_mode' = s.timer_mode
    /\ pomodoros_completed' = s.pomodoros_completed
    /\ out' = s.out
    /\ ret' = s.ret

\* The phase in progress is a work phase and the operation completes it.
CompletesWork(op) ==
    /\ timer_mode = "work"
    /\ \/ op = "skip"
       \/ op = "tick" /\ is_running /\ time_left = 0

NoRun ==
    /\ run_n' = -1
    /\ run_ticks' = 0
    /\ run_others' = 0
    /\ run_mode' = "none"
    /\ run_pom' = 0
    /\ run_total' = 0

\* The histories, kept beside the program's state: they read it, never feed it.
History(op, s) ==
    /\ last_op' = op
    /\ IF op \in {"reset_flow", "update_durations"}
       THEN work_completions' = 0 /\ last_break' = "none"
       ELSE IF CompletesWork(op)
       THEN work_completions' = work_completions + 1 /\ last_break' = s.timer_mode
       ELSE UNCHANGED <<work_completions, last_break>>
    /\ IF op = "start" /\ time_left = total_time
       THEN /\ run_n' = 0
            /\ run_ticks' = 0
            /\ run_others' = 0
            /\ run_mode' = timer_mode
            /\ run_pom' = pomodoros_completed
            /\ run_total' = total_time
       ELSE IF op = "tick" /\ run_n >= 0 /\ run_n <= run_total
       THEN /\ run_n' = run_n + 1
            /\ run_ticks' = run_ticks + Calls(s.out, "on_tick")
            /\ run_others' = run_others + Len(s.out) - Calls(s.out, "on_tick")
            /\ UNCHANGED <<run_mode, run_pom, run_total>>
       ELSE NoRun

\* No settings store takes part: a fresh install, never loaded nor written.
NoStore ==
    /\ settings = _get_defaults
    /\ settings_file = File("missing", "", NoObj)
    /\ disk = "ok"
    /\ raised = "None"
    /\ dialog = "closed"
    /\ start_button = "play"

Init ==
    \E d \in Durations, i \in Intervals, a \in BOOLEAN :
        LET s == __init__(d[1], d[2], d[3], i, a)
        IN  /\ work_duration = s.work_duration
            /\ short_break_duration = s.short_break_duration
            /\ long_break_duration = s.long_break_duration
            /\ long_break_interval = s.long_break_interval
            /\ auto_start = s.auto_start
            /\ time_left = s.time_left
            /\ total_time = s.total_time
            /\ is_running = s.is_running
            /\ timer_mode = s.timer_mode
            /\ pomodoros_completed = s.pomodoros_completed
            /\ out = s.out
            /\ ret = s.ret
            /\ last_op = "__init__"
            /\ work_completions = 0
            /\ last_break = "none"
            /\ run_n = -1
            /\ run_ticks = 0
            /\ run_others = 0
            /\ run_mode = "none"
            /\ run_pom = 0
            /\ run_total = 0
            /\ NoStore

\* A work phase is completed only while the counter is below the model's cap.
Capped(op) == CompletesWork(op) => pomodoros_completed < MaxPomodoros

Start == LET s == start(self) IN Becomes(s) /\ History("start", s) /\ UNCHANGED store

Pause == LET s == pause(self) IN Becomes(s) /\ History("pause", s) /\ UNCHANGED store

Reset == LET s == reset(self) IN Becomes(s) /\ History("reset", s) /\ UNCHANGED store

ResetFlow == LET s == reset_flow(self) IN Becomes(s) /\ History("reset_flow", s) /\ UNCHANGED store

Skip == Capped("skip") /\ LET s == skip(self) IN Becomes(s) /\ History("skip", s) /\ UNCHANGED store

Tick == Capped("tick") /\ LET s == tick(self) IN Becomes(s) /\ History("tick", s) /\ UNCHANGED store

UpdateDurations ==
    \E d \in Durations, i \in Intervals, a \in BOOLEAN :
        LET s == update_durations(self, d[1], d[2], d[3], i, a)
        IN  Becomes(s) /\ History("update_durations", s) /\ UNCHANGED store

Next ==
    \/ Start
    \/ Pause
    \/ Reset
    \/ ResetFlow
    \/ Skip
    \/ Tick
    \/ UpdateDurations

Spec == Init /\ [][Next]_vars

\* The histories stay as they are, but for the last operation.
KeepHistory ==
    UNCHANGED <<work_completions, last_break,
                run_n, run_ticks, run_others, run_mode, run_pom, run_total>>

\* ---- the settings store alone -------------------------------------------

MaxKeys == 1

\* The values a key of settings.json holds in the model.
JValues ==
    {JInt(-5), JInt(0), JInt(1), JInt(7), JInt(90), JInt(999),
     JFloat(2, TRUE), JFloat(0, TRUE), JInf, JNaN,
     JStr("7"), JStr("abc"), JStr("false"), JStr(""), JStr("dark"),
     JStr("light"), JStr("purple"),
     JBool(TRUE), JBool(FALSE), JNull, JList(0), JList(2), JDict(0), JDict(1)}

\* The JSON objects of the model: at most MaxKeys keys present.
Objects ==
    UNION {[ks -> JValues] : ks \in {x \in SUBSET Keys : Cardinality(x) <= MaxKeys}}

\* The contents of settings.json at program start.
Files ==
    {File("json", top, obj) : top \in {"dict", "pairs"}, obj \in Objects}
    \cup {File("json", top, NoObj) :
            top \in {"empty_list", "list", "int", "float", "empty_str", "str",
                     "NoneType", "bool"}}
    \cup {File(kind, "", NoObj) :
            kind \in {"missing", "unreadable", "undecodable", "malformed"}}

DiskStates == {"ok", "no_open", "no_write"}

\* The arguments save_settings is called with in the model: the least
\* values, small ones, and the greatest that sanitizing lets through.
SaveInputs ==
    {<<1, 1, 1, 1, FALSE, FALSE>>,
     <<MaxMinutes, MaxMinutes, MaxMinutes, MaxInterval, TRUE, TRUE>>,
     <<90, 30, 60, 10, TRUE, FALSE>>}

\* No engine takes part: the engine's variables stay those of a PomodoroLogic
\* nobody touches.
NoEngine ==
    LET s == __init__(1, 1, 1, 1, FALSE)
    IN  /\ work_duration = s.work_duration
        /\ short_break_duration = s.short_break_duration
        /\ long_break_duration = s.long_break_duration
        /\ long_break_interval = s.long_break_interval
        /\ auto_start = s.auto_start
        /\ time_left = s.time_left
        /\ total_time = s.total_time
        /\ is_running = s.is_running
        /\ timer_mode = s.timer_mode
        /\ pomodoros_completed = s.pomodoros_completed
        /\ out = s.out
        /\ ret = s.ret
        /\ work_completions = 0
        /\ last_break = "none"
        /\ run_n = -1
        /\ run_ticks = 0
        /\ run_others = 0
        /\ run_mode = "none"
        /\ run_pom = 0
        /\ run_total = 0

engine == <<work_duration, short_break_duration, long_break_duration,
            long_break_interval, auto_start,
            time_left, total_time, is_running, timer_mode, pomodoros_completed,
            out, ret, work_completions, last_break,
            run_n, run_ticks, run_others, run_mode, run_pom, run_total>>

\* SettingsManager(): the state after the constructor on the file f.  An
\* exception leaves the constructor, and no SettingsManager exists.
InitSettings ==
    \E f \in Files, d \in DiskStates :
        LET loaded == _load_settings(f)
        IN  /\ settings = loaded.settings
            /\ raised = loaded.raised
            /\ settings_file = f
            /\ disk = d
            /\ dialog = "closed"
            /\ start_button = "play"
            /\ last_op = "_load_settings"
            /\ NoEngine

\* The program is started again: a new SettingsManager loads settings.json.
Restart ==
    LET loaded == _load_settings(settings_file)
    IN  /\ settings' = loaded.settings
        /\ raised' = loaded.raised
        /\ last_op' = "_load_settings"
        /\ UNCHANGED <<settings_file, disk, dialog, start_button>>
        /\ UNCHANGED engine

SaveSettings ==
    /\ raised = "None"
    /\ \E a \in SaveInputs :
        /\ settings' = save_settings(settings, a[1], a[2], a[3], a[4], a[5], a[6])
        /\ settings_file' = Written(settings_file, settings', disk)
        /\ raised' = "None"
        /\ last_op' = "save_settings"
        /\ UNCHANGED <<disk, dialog, start_button>>
        /\ UNCHANGED engine

ToggleTheme ==
    /\ raised = "None"
    /\ settings' = toggle_theme(settings)
    /\ settings_file' = Written(settings_file, settings', disk)
    /\ raised' = "None"
    /\ last_op' = "toggle_theme"
    /\ UNCHANGED <<disk, dialog, start_button>>
    /\ UNCHANGED engine

\* The environment: the disk fills up, permissions change, or it recovers.
DiskChange ==
    /\ \E d \in DiskStates \ {disk} : disk' = d
    /\ last_op' = "disk"
    /\ UNCHANGED <<settings, settings_file, raised, dialog, start_button>>
    /\ UNCHANGED engine

NextSettings ==
    \/ Restart
    \/ SaveSettings
    \/ ToggleTheme
    \/ DiskChange

SpecSettings == InitSettings /\ [][NextSettings]_vars

\* ---- the application: window, engine and settings store ------------------

get_work_duration(st) == st.work_duration

get_short_break_duration(st) == st.short_break_duration

get_long_break_duration(st) == st.long_break_duration

\* Mutant of get_long_break_interval: the default is returned, not the setting.
get_long_break_interval_default(st) == DEFAULT_LONG_BREAK_INTERVAL

get_long_break_interval(st) == st.long_break_interval

get_auto_start(st) == st.auto_start

get_sound_enabled(st) == st.enable_sound

\* A settings file with every number outside its range, as a text editor
\* may leave it: sanitizing brings each to 1.
OutOfRangeFile ==
    File("json", "dict",
         [k \in NumericKeys \cup {"auto_start"} |->
            IF k = "work_duration" THEN JInt(0)
            ELSE IF k = "short_break_duration" THEN JInt(-5)
            ELSE IF k = "long_break_duration" THEN JFloat(0, TRUE)
            ELSE IF k = "long_break_interval" THEN JInt(0)
            ELSE JInt(1)])

\* The settings files the application is started on in the model: one
\* written by an earlier run, with durations as short as the model's, and
\* the one out of range.
AppFiles ==
    {Dump([work_duration |-> MaxMinutes, short_break_duration |-> 1,
           long_break_duration |-> 1, long_break_interval |-> MaxInterval,
           auto_start |-> FALSE, theme_mode |-> "dark", enable_sound |-> TRUE]),
     OutOfRangeFile}

\* What the user leaves in the dialog's fields when confirming: a valid
\* entry, or one with a field below 1.
DialogInputs ==
    {<<1, 1, 1, 1, FALSE, TRUE>>,
     <<1, 1, 1, MaxInterval, TRUE, FALSE>>,
     <<1, MaxMinutes, MaxMinutes, MaxInterval, TRUE, TRUE>>}
    \cup {<<0, 1, 1, 1, TRUE, FALSE>>, <<1, 0, 1, 1, TRUE, FALSE>>,
          <<1, 1, 0, 1, TRUE, FALSE>>, <<1, 1, 1, 0, TRUE, FALSE>>}

\* _save checking the work duration only.
_save_checks_work_only(work, short, long_val, interval, auto, enable_sound) ==
    IF work < 1
    THEN [is_None |-> TRUE, result |-> <<>>]
    ELSE [is_None |-> FALSE,
          result |-> <<work, short, long_val, interval, auto, enable_sound>>]

\* SettingsDialog._save on the fields' values: the dialog's result, None
\* when the entry is rejected.
_save(work, short, long_val, interval, auto, enable_sound) ==
    IF work < 1 \/ short < 1 \/ long_val < 1 \/ interval < 1
    THEN [is_None |-> TRUE, result |-> <<>>]
    ELSE [is_None |-> FALSE,
          result |-> <<work, short, long_val, interval, auto, enable_sound>>]

\* main(): SettingsManager() loads the file, PomodoroLogic is built from its
\* getters, the window opens.
InitApp ==
    \E f \in AppFiles, d \in DiskStates :
        LET loaded == _load_settings(f)
            st == loaded.settings
            s == __init__(get_work_duration(st), get_short_break_duration(st),
                          get_long_break_duration(st),
                          get_long_break_interval(st), get_auto_start(st))
        IN  /\ loaded.raised = "None"
            /\ settings = st
            /\ raised = "None"
            /\ settings_file = f
            /\ disk = d
            /\ dialog = "closed"
            /\ start_button = "play"
            /\ work_duration = s.work_duration
            /\ short_break_duration = s.short_break_duration
            /\ long_break_duration = s.long_break_duration
            /\ long_break_interval = s.long_break_interval
            /\ auto_start = s.auto_start
            /\ time_left = s.time_left
            /\ total_time = s.total_time
            /\ is_running = s.is_running
            /\ timer_mode = s.timer_mode
            /\ pomodoros_completed = s.pomodoros_completed
            /\ out = s.out
            /\ ret = s.ret
            /\ last_op = "__init__"
            /\ work_completions = 0
            /\ last_break = "none"
            /\ run_n = -1
            /\ run_ticks = 0
            /\ run_others = 0
            /\ run_mode = "none"
            /\ run_pom = 0
            /\ run_total = 0

\* In the application a work phase is completed only while the counter is
\* below one long-break round.
AppCapped(op) == CompletesWork(op) => pomodoros_completed < MaxInterval

\* The glyph _on_complete leaves on the button showing glyph, when the
\* method that left the object s called on_complete.
_on_complete(s, glyph) ==
    IF Calls(s.out, "on_complete") > 0 THEN "play" ELSE glyph

\* A method of the engine called from the window: the engine becomes s, the
\* button shows glyph, the store and the dialog are left alone.
Engine(op, s, glyph) ==
    /\ Becomes(s)
    /\ last_op' = op
    /\ start_button' = glyph
    /\ KeepHistory
    /\ UNCHANGED <<settings, settings_file, disk, raised, dialog>>

\* The buttons of the window; the open dialog's overlay covers them.
_toggle_timer ==
    /\ dialog = "closed"
    /\ IF is_running
       THEN Engine("pause", pause(self), "play")
       ELSE Engine("start", start(self), "pause")

_reset_timer == dialog = "closed" /\ Engine("reset", reset(self), "play")

_reset_flow == dialog = "closed" /\ Engine("reset_flow", reset_flow(self), "play")

_skip_timer ==
    /\ dialog = "closed"
    /\ AppCapped("skip")
    /\ LET s == skip(self) IN Engine("skip", s, _on_complete(s, start_button))

\* The timer loop runs every second, the dialog open or not.
_timer_loop ==
    /\ AppCapped("tick")
    /\ LET s == tick(self) IN Engine("tick", s, _on_complete(s, start_button))

_toggle_theme ==
    /\ dialog = "closed"
    /\ settings' = toggle_theme(settings)
    /\ settings_file' = Written(settings_file, settings', disk)
    /\ raised' = "None"
    /\ out' = <<>>
    /\ ret' = "None"
    /\ last_op' = "toggle_theme"
    /\ UNCHANGED <<disk, dialog, start_button>>
    /\ UNCHANGED fields
    /\ KeepHistory

\* _show_settings up to wait_window: the dialog opens.
_show_settings ==
    /\ dialog = "closed"
    /\ dialog' = "open"
    /\ out' = <<>>
    /\ ret' = "None"
    /\ last_op' = "_show_settings"
    /\ UNCHANGED <<settings, settings_file, disk, raised, start_button>>
    /\ UNCHANGED fields
    /\ KeepHistory

\* The dialog's save button: a rejected entry leaves the dialog open; an
\* accepted one closes it, and _show_settings goes on to save the settings
\* and to update the engine.
DialogSave ==
    /\ dialog = "open"
    /\ \E a \in DialogInputs :
        LET saved == _save(a[1], a[2], a[3], a[4], a[5], a[6])
            result == saved.result
        IN  IF saved.is_None
            THEN /\ out' = <<>>
                 /\ ret' = "None"
                 /\ last_op' = "_save"
                 /\ UNCHANGED store
                 /\ UNCHANGED fields
                 /\ KeepHistory
            ELSE LET s == update_durations(self, result[1], result[2], result[3],
                                           result[4], result[5])
                 IN  /\ settings' = save_settings(settings, result[1], result[2],
                                                  result[3], result[4], result[5],
                                                  result[6])
                     /\ settings_file' = Written(settings_file, settings', disk)
                     /\ raised' = "None"
                     /\ dialog' = "closed"
                     /\ start_button' = "play"
                     /\ UNCHANGED disk
                     /\ Becomes(s)
                     /\ last_op' = "update_durations"
                     /\ KeepHistory

\* The dialog's cancel button: close(), the result stays None.
DialogCancel ==
    /\ dialog = "open"
    /\ dialog' = "closed"
    /\ out' = <<>>
    /\ ret' = "None"
    /\ last_op' = "close"
    /\ UNCHANGED <<settings, settings_file, disk, raised, start_button>>
    /\ UNCHANGED fields
    /\ KeepHistory

NextApp ==
    \/ _toggle_timer
    \/ _reset_timer
    \/ _reset_flow
    \/ _skip_timer
    \/ _timer_loop
    \/ _toggle_theme
    \/ _show_settings
    \/ DialogSave
    \/ DialogCancel

SpecApp == InitApp /\ [][NextApp]_vars

\* ---- the timer left to itself -------------------------------------------

\* The engine reads pomodoros_completed through its remainder by
\* long_break_interval only (pomocus.py:89, 146).  To follow a timer that
\* runs forever in finitely many states, a counter that has reached
\* MaxPomodoros is taken down by one interval: the remainder, and with it
\* every later mode, is the same.
Folded(s) ==
    IF s.pomodoros_completed >= MaxPomodoros
    THEN [s EXCEPT !.pomodoros_completed = @ - s.long_break_interval]
    ELSE s

\* An engine is constructed and started.
InitTimer ==
    \E d \in Durations, i \in Intervals, a \in BOOLEAN :
        LET s == start(__init__(d[1], d[2], d[3], i, a))
        IN  /\ work_duration = s.work_duration
            /\ short_break_duration = s.short_break_duration
            /\ long_break_duration = s.long_break_duration
            /\ long_break_interval = s.long_break_interval
            /\ auto_start = s.auto_start
            /\ time_left = s.time_left
            /\ total_time = s.total_time
            /\ is_running = s.is_running
            /\ timer_mode = s.timer_mode
            /\ pomodoros_completed = s.pomodoros_completed
            /\ out = s.out
            /\ ret = s.ret
            /\ last_op = "start"
            /\ work_completions = 0
            /\ last_break = "none"
            /\ run_n = -1
            /\ run_ticks = 0
            /\ run_others = 0
            /\ run_mode = "none"
            /\ run_pom = 0
            /\ run_total = 0
            /\ NoStore

\* The timer loop calls tick() every second, for ever.
TickForever ==
    LET s == Folded(tick(self))
    IN  Becomes(s) /\ last_op' = "tick" /\ KeepHistory /\ UNCHANGED store

\* The one thing the user does: start a stopped timer again.
StartAgain ==
    /\ ~is_running
    /\ LET s == start(self)
       IN  Becomes(s) /\ last_op' = "start" /\ KeepHistory /\ UNCHANGED store

NextTimer ==
    \/ TickForever
    \/ StartAgain

\* _timer_loop reschedules itself after every call (ui.py:738-741) and tick()
\* never blocks: the tick is weakly fair.
SpecTimer == InitTimer /\ [][NextTimer]_vars /\ WF_vars(TickForever)

\* ---- properties ---------------------------------------------------------

\* The configured duration, in seconds, of the mode m.
ConfiguredSeconds(m) ==
    IF m = "work" THEN work_duration * 60
    ELSE IF m = "short_break" THEN short_break_duration * 60
    ELSE long_break_duration * 60

\* The last operation performed the completion transition.
Completed == last_op \in {"tick", "skip"} /\ Calls(out, "on_complete") = 1

\* C1: in every reachable state 0 <= time_left <= total_time.
C1_TimeLeftInRange == 0 <= time_left /\ time_left <= total_time

\* C1 witness: a running countdown has reached zero, the lower end of the range.
C1_Witness == last_op = "tick" /\ is_running /\ time_left = 0 /\ total_time > 0

\* C2: in every reachable state total_time is 60 times the configured
\* duration of the current mode, also after update_durations.
C2_TotalTimeIsModeDuration == total_time = ConfiguredSeconds(timer_mode)

\* C2 witness: update_durations has installed a work duration other than the
\* one-minute one while the other durations stay at one minute.
C2_Witness ==
    /\ last_op = "update_durations"
    /\ work_duration = MaxMinutes
    /\ short_break_duration # work_duration
    /\ total_time = work_duration * 60

\* C3 as stated: in every reachable state time_left = 0 implies the engine is
\* not running.
C3_NotRunningAtZero == time_left = 0 => ~is_running

\* C3 amended: a running engine at time_left = 0 leaves zero at the very next
\* tick, which performs the completion transition: afterwards time_left is the
\* full, positive duration of the new phase and is_running equals auto_start.
C3_ZeroLeftByNextTick ==
    [][(last_op' = "tick" /\ is_running /\ time_left = 0)
        => /\ Calls(out', "on_complete") = 1
           /\ time_left' = total_time'
           /\ time_left' > 0
           /\ is_running' = auto_start]_vars

\* C3 witness: a tick has completed a phase and left the engine paused.
C3_Witness == last_op = "tick" /\ Completed /\ ~is_running /\ time_left = total_time

\* C4: a completion of a work phase, by tick at zero or by skip, adds exactly
\* 1 to pomodoros_completed and switches to long_break exactly when the new
\* count is a multiple of long_break_interval, to short_break otherwise.
C4_WorkCompletionRule ==
    [][CompletesWork(last_op')
        => /\ pomodoros_completed' = pomodoros_completed + 1
           /\ timer_mode' = IF pomodoros_completed' % long_break_interval = 0
                            THEN "long_break" ELSE "short_break"
           /\ long_break_interval' = long_break_interval]_vars

\* C4 witness: a work phase was completed into a long break with an interval
\* above 1, after an earlier one went to a short break.
C4_Witness ==
    /\ Completed
    /\ timer_mode = "long_break"
    /\ long_break_interval > 1
    /\ pomodoros_completed = long_break_interval

\* C5: in a flow that started fresh, the k-th work completion is followed by
\* a long break exactly when long_break_interval divides k.
C5_LongBreakEveryLth ==
    work_completions > 0 =>
        /\ last_break \in {"long_break", "short_break"}
        /\ (last_break = "long_break") <=> (work_completions % long_break_interval = 0)

\* C5 witness: the second long break of a flow, with an interval above 1.
C5_Witness ==
    /\ long_break_interval > 1
    /\ work_completions = 2 * long_break_interval
    /\ last_break = "long_break"
    /\ timer_mode = "long_break"

\* C6: right after construction the engine is in work mode, paused, with no
\* completed pomodoro and time_left = total_time = work_duration * 60.
C6_AfterConstruction ==
    last_op = "__init__" =>
        /\ timer_mode = "work"
        /\ ~is_running
        /\ pomodoros_completed = 0
        /\ time_left = total_time
        /\ total_time = work_duration * 60

\* C6 witness: a freshly constructed engine whose work duration differs from
\* its break durations.
C6_Witness ==
    /\ last_op = "__init__"
    /\ work_duration = MaxMinutes
    /\ short_break_duration # work_duration
    /\ long_break_duration # work_duration

\* C7: tick() on an engine that is not running changes no field and calls no
\* callback.
C7_TickWhilePausedIsNoOp ==
    [][(last_op' = "tick" /\ ~is_running)
        => UNCHANGED fields /\ out' = <<>>]_vars

\* C7 witness: a tick was taken by a paused engine in the middle of a phase.
C7_Witness ==
    /\ last_op = "tick"
    /\ ret = "False"
    /\ out = <<>>
    /\ ~is_running
    /\ 0 < time_left /\ time_left < total_time

\* C8: start() at full time followed by N < total_time ticks and nothing else
\* lowers time_left by exactly N with N on_tick calls, no other callback, and
\* the mode and the counter as they were.
C8_NTicksDecrementByN ==
    (run_n >= 0 /\ run_n < run_total) =>
        /\ time_left = run_total - run_n
        /\ total_time = run_total
        /\ run_ticks = run_n
        /\ run_others = 0
        /\ timer_mode = run_mode
        /\ pomodoros_completed = run_pom

\* C8 witness: such a run one tick short of its total time.
C8_Witness == run_n > 1 /\ run_n = run_total - 1 /\ last_op = "tick"

\* C9: the tick of a running engine in work mode at time_left = 0 calls
\* on_complete once, with 'work', and on_mode_change once, does not call
\* on_tick, and leaves the engine in long_break when pomodoros_completed is
\* then a multiple of long_break_interval, in short_break otherwise.
C9_TickAtZeroCompletesWork ==
    [][(last_op' = "tick" /\ is_running /\ timer_mode = "work" /\ time_left = 0)
        => /\ Len(out') = 2
           /\ Calls(out', "on_complete") = 1
           /\ Calls(out', "on_mode_change") = 1
           /\ Calls(out', "on_tick") = 0
           /\ \A i \in 1..Len(out') : out'[i].cb = "on_complete" => out'[i].arg = "work"
           /\ timer_mode' = IF pomodoros_completed' % long_break_interval' = 0
                            THEN "long_break" ELSE "short_break"]_vars

\* C9 witness: a tick has completed a work phase into a short break.
C9_Witness ==
    /\ last_op = "tick"
    /\ Completed
    /\ timer_mode = "short_break"
    /\ pomodoros_completed % long_break_interval # 0

\* The object s with the on_tick calls dropped from its record of calls.
WithoutTicks(s) == [s EXCEPT !.out = SelectSeq(@, LAMBDA c : c.cb # "on_tick")]

\* One second of a countdown: a tick, unless the countdown is at zero or
\* stopped; of its callbacks only those other than on_tick are kept.
CountDown(s) ==
    IF s.time_left <= 0 \/ ~s.is_running THEN s ELSE WithoutTicks(tick(s))

\* n seconds of a countdown, one after the other.  The recursion splits n in
\* halves to stay shallow; the test on the first half's object has it
\* computed before the second half starts (a countdown below zero would
\* stand still anyway).
RECURSIVE CountDownFor(_, _)
CountDownFor(s, n) ==
    IF n <= 0 THEN s
    ELSE IF n = 1 THEN CountDown(s)
    ELSE LET half == CountDownFor(s, n \div 2)
         IN  IF half.time_left >= 0 THEN CountDownFor(half, n - (n \div 2)) ELSE half

\* The object after the running countdown of s has reached zero, tick by
\* tick: time_left seconds are enough, as no tick takes less than nothing.
RunDown(s) == CountDownFor(s, s.time_left)

\* The phase of s runs down to zero and is ticked once more.
NaturalCompletion(s) == tick(RunDown(start(s)))

\* The fields of the object s.
FieldsOf(s) ==
    <<s.work_duration, s.short_break_duration, s.long_break_duration,
      s.long_break_interval, s.auto_start, s.time_left, s.total_time,
      s.is_running, s.timer_mode, s.pomodoros_completed>>

\* The on_complete and on_mode_change calls of the object s, in order.
Transitions(s) == SelectSeq(s.out, LAMBDA c : c.cb # "on_tick")

\* C10: from every reachable state skip() leaves the same fields and makes the
\* same on_mode_change and on_complete calls as running the phase down to zero
\* and ticking once more.
C10_SkipIsNaturalCompletion ==
    /\ FieldsOf(skip(self)) = FieldsOf(NaturalCompletion(self))
    /\ Transitions(skip(self)) = Transitions(NaturalCompletion(self))

\* C10 witness: a skip has completed a work phase into a long break that
\* auto_start set running.
C10_Witness ==
    /\ last_op = "skip"
    /\ Completed
    /\ timer_mode = "long_break"
    /\ auto_start
    /\ is_running


\* The configuration fields of the engine.
configuration ==
    <<work_duration, short_break_duration, long_break_duration,
      long_break_interval, auto_start>>

\* C11: reset_flow() leaves pomodoros_completed = 0, work mode, the engine
\* paused, time_left = total_time = work_duration * 60, and the configuration
\* as it was.
C11_ResetFlow ==
    [][last_op' = "reset_flow"
        => /\ pomodoros_completed' = 0
           /\ timer_mode' = "work"
           /\ ~is_running'
           /\ time_left' = total_time'
           /\ total_time' = work_duration' * 60
           /\ UNCHANGED configuration]_vars

\* C11 witness: reset_flow() was called on an engine whose work phase lasts
\* MaxMinutes.
C11_Witness ==
    /\ last_op = "reset_flow"
    /\ last_break = "none"
    /\ work_completions = 0
    /\ pomodoros_completed = 0
    /\ work_duration = MaxMinutes

\* C12: after every completion transition is_running equals the auto_start
\* given to the last update_durations, the new phase having its full time;
\* both completions of the phase update_durations leaves end that way.
C12_AutoStartDecidesRunning ==
    /\ Completed => (is_running = auto_start /\ time_left = total_time)
    /\ last_op = "update_durations" =>
        /\ tick([self EXCEPT !.is_running = TRUE, !.time_left = 0]).is_running = auto_start
        /\ skip(self).is_running = auto_start

\* C12 witness: a tick at zero completed a phase and auto_start set the next
\* one running at its full time.
C12_Witness ==
    /\ last_op = "tick"
    /\ Completed
    /\ auto_start
    /\ is_running
    /\ time_left = total_time
    /\ timer_mode = "work"

\* The last operation switched the mode.
ModeSwitched == Calls(out, "on_mode_change") > 0

\* C13: total_time - time_left is 0 right after every mode switch and lies in
\* 0..total_time in every reachable state: get_progress() is never negative,
\* never above 1, and is 1 exactly when time_left = 0.
C13_ProgressInUnitRange ==
    LET p == get_progress(self)
    IN  /\ 0 <= total_time - time_left
        /\ total_time - time_left <= total_time
        /\ total_time > 0
        /\ p.den > 0
        /\ p.num = total_time - time_left
        /\ 0 <= p.num /\ p.num <= p.den
        /\ (p.num = p.den) <=> (time_left = 0)
        /\ ModeSwitched => p.num = 0

\* C13 witness: a skip in a long phase has switched the mode; progress is 0.
C13_Witness ==
    /\ last_op = "skip"
    /\ ModeSwitched
    /\ get_progress(self).num = 0
    /\ total_time = MaxMinutes * 60

\* C20: start() and pause() set is_running to true and to false, change no
\* other field, call no callback, and change nothing at all when is_running
\* already has that value.
C20_StartPauseFrame ==
    [][/\ last_op' = "start" =>
            /\ is_running'
            /\ UNCHANGED <<configuration, time_left, total_time, timer_mode,
                           pomodoros_completed>>
            /\ out' = <<>>
            /\ is_running => UNCHANGED fields
       /\ last_op' = "pause" =>
            /\ ~is_running'
            /\ UNCHANGED <<configuration, time_left, total_time, timer_mode,
                           pomodoros_completed>>
            /\ out' = <<>>
            /\ ~is_running => UNCHANGED fields]_vars

\* C20 witness: start() was called in the middle of a phase.
C20_Witness ==
    /\ last_op = "start"
    /\ is_running
    /\ 0 < time_left /\ time_left < total_time
    /\ timer_mode = "short_break"


\* ---- loading settings.json (SpecSettings) -------------------------------

\* The state right after SettingsManager() read settings.json.
Loaded == last_op = "_load_settings"

\* settings.json holds a JSON object.
HoldsObject == settings_file.kind = "json" /\ settings_file.top = "dict"

\* The documented range of each numeric setting.
Lower(k) == 1
Upper(k) ==
    IF k = "work_duration" THEN 90
    ELSE IF k = "short_break_duration" THEN 30
    ELSE IF k = "long_break_duration" THEN 60
    ELSE 10

\* A JSON value no integer can be made of.
NotAnInteger(v) ==
    \/ v.t \in {"NoneType", "list", "dict", "nan", "inf"}
    \/ v.t = "str" /\ \A p \in Numerals : p[1] # v.s

\* C14: for every settings file holding a JSON object the load succeeds with
\* every numeric setting inside its range: an integer below the range loads
\* as the lower bound, above it as the upper bound, inside it as itself, and
\* a value that no integer can be made of loads as the default.
\* The code lets the OverflowError of int(float('inf')) leave the load.
C14_NumericSettingsClamped ==
    (Loaded /\ HoldsObject) =>
        /\ raised = "None"
        /\ \A k \in NumericKeys :
            /\ Lower(k) <= settings[k] /\ settings[k] <= Upper(k)
            /\ k \in DOMAIN settings_file.obj =>
                LET v == settings_file.obj[k]
                IN  /\ (v.t = "int" /\ v.n < Lower(k)) => settings[k] = Lower(k)
                    /\ (v.t = "int" /\ v.n > Upper(k)) => settings[k] = Upper(k)
                    /\ (v.t = "int" /\ Lower(k) <= v.n /\ v.n <= Upper(k))
                         => settings[k] = v.n
                    /\ NotAnInteger(v) => settings[k] = _get_defaults[k]

\* C15: for every value of theme_mode in the settings file the load succeeds
\* with the stored value when it is 'dark' or 'light' and with 'dark' for
\* every other value.
\* The code lets the TypeError of hashing a list or an object leave the load.
C15_ThemeModeFallsBack ==
    (Loaded /\ HoldsObject /\ "theme_mode" \in DOMAIN settings_file.obj) =>
        LET v == settings_file.obj["theme_mode"]
        IN  /\ raised = "None"
            /\ settings.theme_mode \in {"dark", "light"}
            /\ settings.theme_mode =
                 IF v.t = "str" /\ v.s \in {"dark", "light"} THEN v.s ELSE "dark"

\* settings.json is corrupt or unreadable: malformed JSON, undecodable bytes,
\* a read error, or valid JSON that is not an object.
Corrupt ==
    \/ settings_file.kind \in {"malformed", "undecodable", "unreadable"}
    \/ settings_file.kind = "json" /\ settings_file.top # "dict"

\* The documented default configuration.
DocumentedDefaults ==
    [work_duration |-> 25, short_break_duration |-> 5,
     long_break_duration |-> 15, long_break_interval |-> 4,
     auto_start |-> FALSE, theme_mode |-> "dark", enable_sound |-> TRUE]

\* C16: for every corrupt or unreadable content of the settings file the load
\* returns the default configuration and raises no error.
\* The code catches JSONDecodeError and IOError only: the UnicodeDecodeError
\* of undecodable bytes and the TypeError or ValueError of dict.update on a
\* list, number, string, null or boolean leave the load.
C16_CorruptFileLoadsDefaults ==
    (Loaded /\ Corrupt) => (raised = "None" /\ settings = DocumentedDefaults)

\* C17: when auto_start or enable_sound is missing from the settings file or
\* holds a value that is not a JSON boolean, the loaded value is the
\* documented default.
\* The code stores bool(value): "false" loads as true, null as false.
C17_BooleansFallBack ==
    (Loaded /\ HoldsObject /\ raised = "None") =>
        \A k \in {"auto_start", "enable_sound"} :
            (k \notin DOMAIN settings_file.obj \/ settings_file.obj[k].t # "bool")
                => settings[k] = DocumentedDefaults[k]

\* ---- the settings store in the application (SpecApp) --------------------

\* A valid configuration: every numeric setting inside its range, booleans,
\* a known theme.
ValidConfiguration(st) ==
    /\ \A k \in NumericKeys :
        st[k] \in Int /\ Lower(k) <= st[k] /\ st[k] <= Upper(k)
    /\ st.auto_start \in BOOLEAN
    /\ st.enable_sound \in BOOLEAN
    /\ st.theme_mode \in {"dark", "light"}

\* C18: when writing settings.json fails during save_settings or
\* toggle_theme, no error reaches the caller, the configuration in memory is
\* valid and holds what was asked for, and the application goes on: after a
\* save with the engine reconfigured from the configuration in memory, after
\* a theme toggle with the engine as it was.
C18_WriteFailureIsNotFatal ==
    [][(disk # "ok" /\ last_op' \in {"update_durations", "toggle_theme"}) =>
        /\ raised' = "None"
        /\ ValidConfiguration(settings')
        /\ dialog' = "closed"
        /\ settings_file' \in {settings_file, File("malformed", "", NoObj)}
        /\ last_op' = "update_durations" =>
            /\ work_duration' = settings'.work_duration
            /\ short_break_duration' = settings'.short_break_duration
            /\ long_break_duration' = settings'.long_break_duration
            /\ long_break_interval' = settings'.long_break_interval
            /\ auto_start' = settings'.auto_start
            /\ pomodoros_completed' = 0 /\ timer_mode' = "work"
            /\ ~is_running'
            /\ time_left' = settings'.work_duration * 60
            /\ settings'.theme_mode = settings.theme_mode
        /\ last_op' = "toggle_theme" =>
            /\ settings'.theme_mode # settings.theme_mode
            /\ settings' = [settings EXCEPT !.theme_mode = settings'.theme_mode]
            /\ UNCHANGED fields
      ]_vars

\* A theme toggle on a disk that failed the write, after a save that failed
\* too and reconfigured the engine all the same.
C18_Witness ==
    /\ disk = "no_write"
    /\ last_op = "toggle_theme"
    /\ settings.theme_mode = "light"
    /\ settings_file.kind = "malformed"
    /\ settings.long_break_interval = 1
    /\ long_break_interval = 1
    /\ raised = "None"

\* C19: a dialog confirmed with a duration or the interval below 1 is
\* rejected, and so is a cancelled one: nothing reaches the store or the
\* file, and the engine's configuration, mode, time_left, is_running and
\* pomodoros_completed stay as they are.  No step of the dialog ever stores
\* a value below 1 in the store or in the engine.
C19_InvalidEntryIsRejected ==
    [][/\ last_op' \in {"_save", "close"} =>
            /\ UNCHANGED <<settings, settings_file>>
            /\ UNCHANGED fields
            /\ raised' = "None"
            /\ dialog' = IF last_op' = "_save" THEN "open" ELSE "closed"
       /\ dialog = "open" =>
            /\ \A k \in NumericKeys : settings'[k] >= 1
            /\ work_duration' >= 1 /\ short_break_duration' >= 1
            /\ long_break_duration' >= 1 /\ long_break_interval' >= 1
            /\ settings_file' \in {settings_file, Dump(settings'),
                                   File("malformed", "", NoObj)}
      ]_vars

\* An entry is rejected while the engine is running in the middle of a phase.
C19_Witness ==
    /\ last_op = "_save"
    /\ dialog = "open"
    /\ is_running
    /\ 0 < time_left /\ time_left < total_time
    /\ pomodoros_completed > 0

\* ---- reset, breaks, completion order, reconfiguration (Spec) ------------

Breaks == {"short_break", "long_break"}

\* C21: reset() from any reachable state stops the timer and restores the
\* full duration of the current mode (time_left = total_time), changes
\* neither timer_mode nor pomodoros_completed nor the configuration, and
\* calls no callback.
C21_Reset ==
    [][last_op' = "reset" =>
        /\ ~is_running'
        /\ time_left' = total_time'
        /\ total_time' = ConfiguredSeconds(timer_mode)
        /\ timer_mode' = timer_mode
        /\ pomodoros_completed' = pomodoros_completed
        /\ configuration' = configuration
        /\ out' = <<>>
      ]_vars

\* C21 witness: a reset in a long break, after completed pomodoros.
C21_Witness ==
    /\ last_op = "reset"
    /\ timer_mode = "long_break"
    /\ pomodoros_completed > 0
    /\ ~is_running
    /\ time_left = long_break_duration * 60

\* C22: every completion of a break, by tick at zero or by skip, switches to
\* work and leaves pomodoros_completed as it is; no step leads from a break
\* to the other break.
C22_BreakThenWork ==
    [][/\ (timer_mode \in Breaks /\ Completed') =>
            /\ timer_mode' = "work"
            /\ pomodoros_completed' = pomodoros_completed
            /\ out'[Len(out')] = [cb |-> "on_complete", arg |-> timer_mode]
       /\ timer_mode \in Breaks => timer_mode' \in {timer_mode, "work"}
      ]_vars

\* C22 witness: a running long break was completed by a tick at zero.
C22_Witness ==
    /\ last_op = "tick"
    /\ Completed
    /\ out[Len(out)].arg = "long_break"
    /\ timer_mode = "work"
    /\ pomodoros_completed > 0

\* The completion transition led from the object before to the object s in
\* the documented order: with is_running cleared the mode is switched and
\* on_mode_change called, then on_complete is called with the mode that
\* ended, and only then auto_start sets is_running.  Both handlers find the
\* new mode, its full time left and a stopped timer.
CompletionOrder(before, s) ==
    LET at_handler ==
            [timer_mode |-> s.timer_mode,
             time_left |-> s.total_time,
             total_time |-> s.total_time,
             is_running |-> FALSE,
             pomodoros_completed |-> s.pomodoros_completed]
    IN  /\ s.out = <<[cb |-> "on_mode_change", arg |-> s.timer_mode],
                     [cb |-> "on_complete", arg |-> before.timer_mode]>>
        /\ s.seen = <<at_handler, at_handler>>
        /\ s.timer_mode # before.timer_mode
        /\ s.time_left = s.total_time
        /\ s.is_running = before.auto_start

\* C23: within one completion transition, by skip or by a tick at zero,
\* is_running is cleared, the mode switched, the mode change notified, the
\* completion notified with the mode that ended, and only after that
\* auto_start sets is_running: the completion handler finds the new mode
\* with its full time left and is_running false.
C23_CompletionOrder ==
    /\ CompletionOrder(self, skip(self))
    /\ (is_running /\ time_left = 0) => CompletionOrder(self, tick(self))

\* C23 witness: a tick at zero completed a work phase into a short break
\* that auto_start set running.
C23_Witness ==
    /\ last_op = "tick"
    /\ Completed
    /\ auto_start
    /\ is_running
    /\ timer_mode = "short_break"
    /\ out[2].arg = "work"

\* The object s with the five configuration fields assigned.
Assigned(s, work_min, short_min, long_min, interval, auto) ==
    [s EXCEPT !.work_duration = work_min,
              !.short_break_duration = short_min,
              !.long_break_duration = long_min,
              !.long_break_interval = interval,
              !.auto_start = auto]

\* C24: from every reachable state update_durations(w, s, l, i, a) leaves
\* the engine exactly as assigning the five configuration fields and then
\* calling reset_flow() does: no completed pomodoro, stopped, in work mode,
\* time_left = total_time = w * 60, with one on_mode_change call and no
\* on_complete call.
C24_UpdateDurationsIsResetFlow ==
    \A d \in Durations, i \in Intervals, a \in BOOLEAN :
        LET s == update_durations(self, d[1], d[2], d[3], i, a)
        IN  /\ s = reset_flow(Assigned(self, d[1], d[2], d[3], i, a))
            /\ FieldsOf(s) = <<d[1], d[2], d[3], i, a, d[1] * 60, d[1] * 60,
                               FALSE, "work", 0>>
            /\ s.out = <<[cb |-> "on_mode_change", arg |-> "work"]>>

\* C24 witness: update_durations has reconfigured the engine with a longer
\* work phase, the largest interval and auto_start.
C24_Witness ==
    /\ last_op = "update_durations"
    /\ work_duration = MaxMinutes
    /\ long_break_interval = MaxInterval
    /\ auto_start
    /\ ~is_running
    /\ pomodoros_completed = 0
    /\ time_left = MaxMinutes * 60

\* ---- the one-tick delay and the result of tick (Spec) -------------------

\* A run start(); tick(); ... of a phase of run_total seconds started at full
\* time: through its first run_total ticks the phase goes on, at tick number
\* run_total it stands at zero, still running in the same mode, and tick
\* number run_total + 1 is the completion transition.
DelayedCompletion ==
    run_n >= 0 =>
        /\ run_total > 0
        /\ run_n <= run_total =>
            /\ timer_mode = run_mode
            /\ pomodoros_completed = run_pom
            /\ total_time = run_total
            /\ time_left = run_total - run_n
            /\ is_running
            /\ run_ticks = run_n
            /\ run_others = 0
        /\ run_n = run_total + 1 =>
            /\ Completed
            /\ timer_mode # run_mode
            /\ time_left = total_time
            /\ run_ticks = run_total
            /\ run_others = 2

\* A tick either lowers time_left, or completes the phase, or does nothing:
\* never two of them.
TickDecrementsOrCompletes ==
    last_op' = "tick" =>
        \/ /\ time_left' = time_left - 1
           /\ out' = <<[cb |-> "on_tick", arg |-> "None"]>>
           /\ timer_mode' = timer_mode
           /\ pomodoros_completed' = pomodoros_completed
        \/ /\ time_left = 0 /\ is_running
           /\ time_left' = total_time'
           /\ Calls(out', "on_complete") = 1
           /\ Calls(out', "on_tick") = 0
        \/ /\ ~is_running
           /\ out' = <<>>
           /\ UNCHANGED fields

\* C25: completion is detected one tick late: a phase of T seconds started at
\* full time and ticked without interruption is at time_left = 0 after
\* exactly T ticks, still in its mode, and switches mode on tick T + 1; no
\* tick both lowers time_left and performs the completion transition.
C25_CompletionOneTickLate ==
    []DelayedCompletion /\ [][TickDecrementsOrCompletes]_vars

\* C25 witness: tick number T + 1 of such a run has just completed the phase.
C25_Witness ==
    /\ run_n = run_total + 1
    /\ run_total = MaxMinutes * 60
    /\ last_op = "tick"
    /\ Completed
    /\ timer_mode # run_mode

\* C26 as stated: the result of tick() tells its three outcomes apart: the
\* tick of a stopped engine, the tick that lowers time_left and the tick
\* that completes the phase return three different values.
C26_ResultTellsThreeOutcomes ==
    LET no_change == tick(pause(self)).ret
    IN  /\ (is_running /\ time_left > 0) => tick(self).ret # no_change
        /\ (is_running /\ time_left = 0) =>
                /\ tick(self).ret # no_change
                /\ tick(self).ret # "True"

\* C26 amended: tick() returns True exactly when it lowered time_left and
\* False otherwise: the completing tick returns False like the tick of a
\* stopped engine, and differs from it by its on_complete call.
C26_ResultTellsDecrement ==
    [][last_op' = "tick" =>
        /\ ret' \in {"True", "False"}
        /\ ret' = "True" <=> (is_running /\ time_left > 0)
        /\ ret' = "True" <=> (time_left' = time_left - 1)
        /\ (is_running /\ time_left = 0) =>
                (ret' = "False" /\ Calls(out', "on_complete") = 1)
        /\ ~is_running => (ret' = "False" /\ out' = <<>>)
      ]_vars

\* C26 witness: a tick completed a phase and returned False.
C26_Witness ==
    /\ last_op = "tick"
    /\ Completed
    /\ ret = "False"
    /\ timer_mode = "work"
    /\ time_left = total_time

\* C28: in every reachable state a long break stands on a positive multiple
\* of long_break_interval completed pomodoros and a short break on a count
\* that is no multiple of it (with an interval of 1 there is no short break),
\* also after update_durations changed the interval.
C28_BreakMatchesCounter ==
    /\ timer_mode = "long_break" =>
            /\ pomodoros_completed > 0
            /\ pomodoros_completed % long_break_interval = 0
    /\ timer_mode = "short_break" =>
            /\ pomodoros_completed % long_break_interval # 0
            /\ long_break_interval # 1

\* C28 witness: a short break past the first long break of a flow.
C28_Witness ==
    /\ timer_mode = "short_break"
    /\ long_break_interval > 1
    /\ pomodoros_completed > long_break_interval
    /\ work_completions = pomodoros_completed

\* ---- the running application (SpecApp) ----------------------------------

\* C27: in every state of the running application the three durations and
\* the interval, in the engine and in the store, are integers >= 1; hence
\* total_time > 0, the modulo by long_break_interval is defined and
\* get_progress divides by total_time, never taking its guard for 0.
C27_ConfigurationIsPositive ==
    /\ \A n \in {work_duration, short_break_duration, long_break_duration,
                 long_break_interval} : n \in Int /\ n >= 1
    /\ \A k \in NumericKeys : settings[k] \in Int /\ settings[k] >= 1
    /\ total_time > 0
    /\ pomodoros_completed % long_break_interval \in 0..(long_break_interval - 1)
    /\ get_progress(self) = [num |-> total_time - time_left, den |-> total_time]

\* C27 witness: started on the file out of range, never saved over, the
\* engine has reached a long break with the interval sanitized to 1.
C27_Witness ==
    /\ settings_file = OutOfRangeFile
    /\ long_break_interval = 1
    /\ timer_mode = "long_break"
    /\ is_running
    /\ time_left < total_time

\* C29 as stated: after any sequence of button presses, saves and ticks the
\* start/pause button shows the pause glyph exactly when is_running is true,
\* also after a completion with auto_start.
\* _on_complete puts the play glyph on the button and complete() starts the
\* timer after it: with auto_start the timer runs under a play glyph.
C29_ButtonShowsRunning == (start_button = "pause") <=> is_running

\* C30: in every state of the running application the engine's three
\* durations, interval and auto_start are those the SettingsManager holds in
\* memory, whether the last write of the file succeeded or not.
C30_EngineFollowsSettings ==
    /\ work_duration = settings.work_duration
    /\ short_break_duration = settings.short_break_duration
    /\ long_break_duration = settings.long_break_duration
    /\ long_break_interval = settings.long_break_interval
    /\ auto_start = settings.auto_start

\* C30 witness: a save of the dialog changed the configuration while the
\* file could not be opened for writing.
C30_Witness ==
    /\ last_op = "update_durations"
    /\ disk = "no_open"
    /\ settings_file \in AppFiles
    /\ settings_file # Dump(settings)
    /\ short_break_duration = MaxMinutes
    /\ auto_start

\* ---- the timer left to itself (SpecTimer) -------------------------------

\* The last tick completed a phase of mode m.
CompletedPhase(m) ==
    /\ last_op = "tick"
    /\ Calls(out, "on_complete") = 1
    /\ out[Len(out)] = [cb |-> "on_complete", arg |-> m]

\* C31: with the tick weakly fair and the user at most starting a stopped
\* timer, a running engine eventually completes the phase it is in; with
\* auto_start it stays running, leaves time_left = 0 again and again, and
\* enters work phases and long breaks for ever; without auto_start a
\* completion stops it at the next phase's full time, where it stays until
\* start() is called.
C31_RunningEngineCompletes ==
    /\ \A m \in {"work", "short_break", "long_break"} :
            (is_running /\ timer_mode = m) ~> CompletedPhase(m)
    /\ (auto_start /\ is_running) ~> (timer_mode = "long_break" /\ CompletedPhase("work"))
    /\ (auto_start /\ is_running) ~> (timer_mode = "work" /\ CompletedPhase("long_break"))
    /\ (auto_start /\ is_running /\ time_left = 0) ~> (time_left = total_time)
    /\ [][(auto_start /\ is_running) => is_running']_vars
    /\ [][(~auto_start /\ last_op' = "tick" /\ Calls(out', "on_complete") = 1) =>
            (~is_running' /\ time_left' = total_time')]_vars
    /\ [][(~is_running /\ last_op' # "start") => UNCHANGED fields]_vars

\* C31 witness: left to itself with auto_start, the timer has come back to
\* work from a long break that follows several pomodoros.
C31_Witness ==
    /\ auto_start
    /\ is_running
    /\ CompletedPhase("long_break")
    /\ timer_mode = "work"
    /\ long_break_interval = MaxInterval
    /\ pomodoros_completed >= MaxInterval

\* ---- the theme (SpecApp) -------------------------------------------------

\* The other theme.
Flipped(mode) == IF mode = "dark" THEN "light" ELSE "dark"

\* C32: toggle_theme changes theme_mode alone, dark to light and light to
\* dark, and leaves the timer settings and the engine as they are;
\* theme_mode is dark or light in every reachable state, two toggles in a
\* row give the settings back, and a save through the dialog keeps
\* theme_mode.
C32_ToggleThemeChangesThemeOnly ==
    /\ [](settings.theme_mode \in {"dark", "light"})
    /\ [](toggle_theme(toggle_theme(settings)) = settings)
    /\ [][last_op' = "toggle_theme" =>
            /\ settings' = [settings EXCEPT !.theme_mode = Flipped(@)]
            /\ UNCHANGED fields]_vars
    /\ [][last_op' = "update_durations" =>
            settings'.theme_mode = settings.theme_mode]_vars

\* C32 witness: the theme is dark again after toggles, while a timer with
\* settings other than the defaults is running in mid-phase.
C32_Witness ==
    /\ last_op = "toggle_theme"
    /\ settings.theme_mode = "dark"
    /\ settings.work_duration # DEFAULT_WORK
    /\ settings.auto_start
    /\ is_running
    /\ time_left < total_time

\* ---- saving and loading again (SpecSettings) ------------------------------

\* The settings st hold values _sanitize_settings lets through unchanged.
Sanitized(st) ==
    /\ st.work_duration \in 1..90
    /\ st.short_break_duration \in 1..30
    /\ st.long_break_duration \in 1..60
    /\ st.long_break_interval \in 1..10
    /\ st.auto_start \in BOOLEAN
    /\ st.enable_sound \in BOOLEAN
    /\ st.theme_mode \in THEMES

\* The outcome of a load that raises nothing and returns st.
Returns(st) == [raised |-> "None", settings |-> st]

\* C33: settings within the sanitized ranges are left as they are by
\* _sanitize_settings; after a save_settings that wrote the file, the file
\* loads to the settings saved, theme_mode included, and a restart of the
\* program finds exactly them.
C33_SaveLoadRoundTrip ==
    /\ []((raised = "None" /\ Sanitized(settings)) =>
            _sanitize_settings(Dump(settings).obj) = Returns(settings))
    /\ []((last_op = "save_settings" /\ disk = "ok") =>
            /\ Sanitized(settings)
            /\ settings_file = Dump(settings)
            /\ _load_settings(settings_file) = Returns(settings))
    /\ [][(last_op = "save_settings" /\ disk = "ok" /\ last_op' = "_load_settings") =>
            (settings' = settings /\ raised' = "None")]_vars

\* C33 witness: the program was restarted on a file saved with the greatest
\* values and the light theme, and holds them again.
C33_Witness ==
    /\ last_op = "_load_settings"
    /\ raised = "None"
    /\ settings = [work_duration |-> 90, short_break_duration |-> 30,
                   long_break_duration |-> 60, long_break_interval |-> 10,
                   auto_start |-> TRUE, theme_mode |-> "light",
                   enable_sound |-> FALSE]
    /\ settings_file = Dump(settings)

====
